---- MODULE Spec2Model ----
(***************************************************************************)
(* Access-control and homework command tools of the classroom bot.         *)
(*                                                                         *)
(* The store (tables students, homework, groups) is shared by the tool     *)
(* calls of concurrently handled messages.  Every tool call is a sequence  *)
(* of store statements (one round trip each); a call's position and its    *)
(* local variables live in call[p].  A store statement may throw (a        *)
(* connection or driver error): each statement action chooses ok in        *)
(* BOOLEAN, and ok = FALSE takes the tool's catch branch.                  *)
(*                                                                         *)
(* Text columns that never influence control flow (first and last name,    *)
(* homework title, description, subject) are left out of the rows.         *)
(* A null column is 0 for a number and "" for a text (both are falsy in    *)
(* the tools' JavaScript tests, as null is).                               *)
(*                                                                         *)
(* The tools are called by the agent turn of the message workflow: step 1  *)
(* runs the agent, step 2 sends the agent's text to the chat.  run[p] is   *)
(* the workflow run of message p.                                          *)
(***************************************************************************)
EXTENDS Integers, Sequences, FiniteSets, TLC

VARIABLES students, homework, groups, nextStudentId, nextHomeworkId,
          databaseUrl, call, run, botToken

vars == <<students, homework, groups, nextStudentId, nextHomeworkId,
          databaseUrl, call, run, botToken>>

(***************************************************************************)
(* Bounds of the model                                                     *)
(***************************************************************************)
\* homework rows ever inserted (the serial of homework.id is capped here)
MaxHomework == 2

\* the concurrently handled messages (each runs one tool call at a time)
Procs == {"m1", "m2"}

\* inputs the agent may pass to the tools; a studentId is the sequence of its
\* characters, so that case folding is computed and not assumed
TelegramIds == {101, 102}
Usernames == {"", "anna"}
st001 == <<"s", "t", "0", "0", "1">>
ST001 == <<"S", "T", "0", "0", "1">>
ST002 == <<"S", "T", "0", "0", "2">>
ST003 == <<"S", "T", "0", "0", "3">>
ST004 == <<"S", "T", "0", "0", "4">>
ST005 == <<"S", "T", "0", "0", "5">>
ST006 == <<"S", "T", "0", "0", "6">>
ST999 == <<"S", "T", "9", "9", "9">>
StudentIdInputs == {st001, ST001, ST002, ST004, ST999}
GroupIdInputs == {0, 1, 2, 4}
DueDateInputs == {"", "2025-09-01 10:00", "next week"}
LimitInputs == {1, 10}

(***************************************************************************)
(* Roster, case folding, schema constraints                                *)
(***************************************************************************)
\* String.prototype.toUpperCase on one character
UpperChar(c) ==
    CASE c = "s" -> "S"
      [] c = "t" -> "T"
      [] OTHER -> c

toUpperCase(s) == [i \in DOMAIN s |-> UpperChar(s[i])]

\* the roster: studentId -> groupId, accessLevel
AUTHORIZED_STUDENTS ==
    (ST001 :> [groupId |-> 1, accessLevel |-> "student"]) @@
    (ST002 :> [groupId |-> 1, accessLevel |-> "monitor"]) @@
    (ST003 :> [groupId |-> 2, accessLevel |-> "student"]) @@
    (ST004 :> [groupId |-> 2, accessLevel |-> "admin"]) @@
    (ST005 :> [groupId |-> 3, accessLevel |-> "owner"]) @@
    (ST006 :> [groupId |-> 3, accessLevel |-> "student"])

\* the rows of the groups table, provisioned outside the tools
GroupRows ==
    { [id |-> 1, groupName |-> "Group 1"],
      [id |-> 2, groupName |-> "Group 2"],
      [id |-> 3, groupName |-> "Group 3"] }

\* the fallback group name of the results
Unknown == "unknown"

\* select groupName from groups where id = gid limit 1 (a set of 0 or 1 rows)
SelectGroup(gid) == {g \in groups : g.id = gid}

\* groupResult[0]?.groupName || fallback
GroupNameOr(gid) ==
    IF SelectGroup(gid) = {} THEN Unknown
    ELSE (CHOOSE g \in SelectGroup(gid) : TRUE).groupName

\* select from students where student_id = sid limit 1
SelectStudentByStudentId(sid) == {s \in students : s.studentId = sid}

\* select from students where telegram_user_id = tg limit 1
SelectStudentByTelegramId(tg) == {s \in students : s.telegramUserId = tg}

\* mutant: student_id is not declared unique
StudentInsertAllowed_NoUniqueStudentId(row) ==
    /\ \A s \in students : s.telegramUserId # row.telegramUserId
    /\ row.groupId = 0 \/ \E g \in groups : g.id = row.groupId

\* mutant: telegram_user_id is not declared unique
StudentInsertAllowed_NoUniqueTelegramId(row) ==
    /\ \A s \in students : s.studentId # row.studentId
    /\ row.groupId = 0 \/ \E g \in groups : g.id = row.groupId

\* the constraints of the students table: both unique columns and the
\* foreign key to groups
StudentInsertAllowed(row) ==
    /\ \A s \in students : s.telegramUserId # row.telegramUserId
    /\ \A s \in students : s.studentId # row.studentId
    /\ row.groupId = 0 \/ \E g \in groups : g.id = row.groupId

(***************************************************************************)
(* Tool calls                                                              *)
(***************************************************************************)
NoCall == [op |-> "none", pc |-> "idle", arg |-> <<>>, loc |-> <<>>,
           res |-> <<>>, fault |-> FALSE, ghost |-> <<>>]

\* a tool is invoked when the message has no call in flight
CanBegin(p) == call[p].pc = "idle"

At(p, op, pc) == call[p].op = op /\ call[p].pc = pc

NewCall(op, pc, arg, ghost) ==
    [op |-> op, pc |-> pc, arg |-> arg, loc |-> <<>>, res |-> <<>>,
     fault |-> FALSE, ghost |-> ghost]

\* a call that returns before its first store statement
Begin(p, c, r) ==
    call' = [call EXCEPT ![p] =
               IF r = <<>> THEN c ELSE [c EXCEPT !.pc = "done", !.res = r]]

Return(p, r) == call' = [call EXCEPT ![p].pc = "done", ![p].res = r]

\* the catch branch after a thrown store statement
Throw(p, r) ==
    call' = [call EXCEPT ![p].pc = "done", ![p].res = r, ![p].fault = TRUE]

Goto(p, pc, loc) == call' = [call EXCEPT ![p].pc = pc, ![p].loc = loc]

StoreUnchanged ==
    UNCHANGED <<students, homework, groups, nextStudentId, nextHomeworkId,
                databaseUrl>>

\* a tool statement is no step of the workflow
PipelineUnchanged == UNCHANGED <<run, botToken>>

\* the result has been handed to the agent
ToolReturn(p) ==
    /\ call[p].pc = "done"
    /\ call' = [call EXCEPT ![p] = NoCall]
    /\ StoreUnchanged

(***************************************************************************)
(* studentRegistrationTool                                                 *)
(***************************************************************************)
NoStudent == <<>>

RegResult(kind, success, student) ==
    [kind |-> kind, success |-> success, student |-> student]

RegError == RegResult("error", FALSE, NoStudent)

\* existingStudent[0].accessLevel || "student"
AccessLevelOr(level) == IF level = "" THEN "student" ELSE level

\* the student object of a successful registration result
RegProjection(row, groupName) ==
    [id |-> row.id, studentId |-> row.studentId, groupId |-> row.groupId,
     groupName |-> groupName, accessLevel |-> AccessLevelOr(row.accessLevel)]

\* The bookkeeping of the properties (call[p].ghost), never read by a tool:
\* the canonical form of a studentId, and the outcome the registration
\* precedence prescribes on table S
RosterKey(sid) ==
    [i \in DOMAIN sid |->
       IF sid[i] = "s" THEN "S" ELSE IF sid[i] = "t" THEN "T" ELSE sid[i]]

RegExpected(S, tg, sid) ==
    LET key == RosterKey(sid) IN
    IF key \notin {ST001, ST002, ST003, ST004, ST005, ST006} THEN "notAuthorized"
    ELSE IF \E s \in S : s.studentId = key /\ s.telegramUserId = tg
         THEN "already"
    ELSE IF \E s \in S : s.studentId = key THEN "claimed"
    ELSE IF \E s \in S : s.telegramUserId = tg THEN "bound"
    ELSE "registered"

\* ghost.rejected: the insert reached the table and a constraint refused it;
\* ghost.previous: the student returned by the call this one directly
\* follows, when that was a successful registration of the same identity and
\* studentId
RegPrevious(p, tg, sid) ==
    IF /\ call[p].op = "register" /\ call[p].pc = "done"
       /\ call[p].res.success
       /\ call[p].arg.telegramUserId = tg /\ call[p].arg.studentId = sid
    THEN call[p].res.student
    ELSE NoStudent

\* mutant: the connection string is checked before the roster
RegBegin_ChecksUrlFirst(p, tg, user, sid) ==
    /\ CanBegin(p) \/ At(p, "register", "done")
    /\ StoreUnchanged
    /\ Begin(p, NewCall("register", "reg_byStudentId",
                        [telegramUserId |-> tg, telegramUsername |-> user,
                         studentId |-> sid],
                        [expect |-> RegExpected(students, tg, sid),
                         previous |-> RegPrevious(p, tg, sid),
                         rejected |-> FALSE]),
             IF ~databaseUrl
             THEN RegResult("noDatabaseUrl", FALSE, NoStudent)
             ELSE IF toUpperCase(sid) \notin DOMAIN AUTHORIZED_STUDENTS
             THEN RegResult("notAuthorized", FALSE, NoStudent)
             ELSE <<>>)

\* execute, up to the first store statement: roster check, connection string
\* (the agent may also repeat a registration on reading its result)
RegBegin(p, tg, user, sid) ==
    /\ CanBegin(p) \/ At(p, "register", "done")
    /\ StoreUnchanged
    /\ Begin(p, NewCall("register", "reg_byStudentId",
                        [telegramUserId |-> tg, telegramUsername |-> user,
                         studentId |-> sid],
                        [expect |-> RegExpected(students, tg, sid),
                         previous |-> RegPrevious(p, tg, sid),
                         rejected |-> FALSE]),
             IF toUpperCase(sid) \notin DOMAIN AUTHORIZED_STUDENTS
             THEN RegResult("notAuthorized", FALSE, NoStudent)
             ELSE IF ~databaseUrl
             THEN RegResult("noDatabaseUrl", FALSE, NoStudent)
             ELSE <<>>)

\* mutant: a studentId held by another identity is not reported here, the
\* call goes on to the identity check
RegSelectByStudentId_SkipsClaimed(p) ==
    /\ At(p, "register", "reg_byStudentId")
    /\ StoreUnchanged
    /\ \E ok \in BOOLEAN :
        LET a == call[p].arg
            existingStudent == SelectStudentByStudentId(toUpperCase(a.studentId))
        IN  IF ~ok THEN Throw(p, RegError)
            ELSE IF \E e \in existingStudent : e.telegramUserId = a.telegramUserId
            THEN Goto(p, "reg_groupOfExisting",
                      [existing |-> CHOOSE s \in existingStudent : TRUE])
            ELSE Goto(p, "reg_byTelegramId", <<>>)

\* const existingStudent = select ... where studentId = upper(studentId)
RegSelectByStudentId(p) ==
    /\ At(p, "register", "reg_byStudentId")
    /\ StoreUnchanged
    /\ \E ok \in BOOLEAN :
        LET a == call[p].arg
            existingStudent == SelectStudentByStudentId(toUpperCase(a.studentId))
        IN  IF ~ok THEN Throw(p, RegError)
            ELSE IF existingStudent # {}
            THEN LET e == CHOOSE s \in existingStudent : TRUE IN
                 IF e.telegramUserId = a.telegramUserId
                 THEN Goto(p, "reg_groupOfExisting", [existing |-> e])
                 ELSE Return(p, RegResult("claimed", FALSE, NoStudent))
            ELSE Goto(p, "reg_byTelegramId", <<>>)

\* mutant: a repeated registration is answered as a conflict
RegGroupOfExisting_Conflict(p) ==
    /\ At(p, "register", "reg_groupOfExisting")
    /\ StoreUnchanged
    /\ \E ok \in BOOLEAN :
        IF ~ok THEN Throw(p, RegError)
        ELSE Return(p, RegResult("claimed", FALSE, NoStudent))

\* the group name of the existing row, then the idempotent success
RegGroupOfExisting(p) ==
    /\ At(p, "register", "reg_groupOfExisting")
    /\ StoreUnchanged
    /\ \E ok \in BOOLEAN :
        LET e == call[p].loc.existing IN
        IF ~ok THEN Throw(p, RegError)
        ELSE Return(p, RegResult("already", TRUE,
                                 RegProjection(e, GroupNameOr(e.groupId))))

\* mutant: the identity's old binding is dropped before the conflict is
\* reported
RegSelectByTelegramId_Rebinds(p) ==
    /\ At(p, "register", "reg_byTelegramId")
    /\ UNCHANGED <<homework, groups, nextStudentId, nextHomeworkId, databaseUrl>>
    /\ \E ok \in BOOLEAN :
        LET a == call[p].arg
            existingTelegramUser == SelectStudentByTelegramId(a.telegramUserId)
        IN  IF ~ok THEN UNCHANGED students /\ Throw(p, RegError)
            ELSE IF existingTelegramUser # {}
            THEN /\ students' = students \ existingTelegramUser
                 /\ Return(p, RegResult("bound", FALSE, NoStudent) @@
                       [boundTo |-> (CHOOSE s \in existingTelegramUser : TRUE).studentId])
            ELSE UNCHANGED students /\ Goto(p, "reg_insert", <<>>)

\* const existingTelegramUser = select ... where telegramUserId = ...
RegSelectByTelegramId(p) ==
    /\ At(p, "register", "reg_byTelegramId")
    /\ StoreUnchanged
    /\ \E ok \in BOOLEAN :
        LET a == call[p].arg
            existingTelegramUser == SelectStudentByTelegramId(a.telegramUserId)
        IN  IF ~ok THEN Throw(p, RegError)
            ELSE IF existingTelegramUser # {}
            THEN Return(p, RegResult("bound", FALSE, NoStudent) @@
                     [boundTo |-> (CHOOSE s \in existingTelegramUser : TRUE).studentId])
            ELSE Goto(p, "reg_insert", <<>>)

\* mutant: the access level is left to the column default
NewStudentData_DefaultsAccessLevel(a) ==
    LET authorizedStudent == AUTHORIZED_STUDENTS[toUpperCase(a.studentId)] IN
    [telegramUserId |-> a.telegramUserId,
     telegramUsername |-> a.telegramUsername,
     studentId |-> toUpperCase(a.studentId),
     groupId |-> authorizedStudent.groupId,
     accessLevel |-> "student",
     isActive |-> TRUE]

\* newStudentData
NewStudentData(a) ==
    LET authorizedStudent == AUTHORIZED_STUDENTS[toUpperCase(a.studentId)] IN
    [telegramUserId |-> a.telegramUserId,
     telegramUsername |-> a.telegramUsername,
     studentId |-> toUpperCase(a.studentId),
     groupId |-> authorizedStudent.groupId,
     accessLevel |-> authorizedStudent.accessLevel,
     isActive |-> TRUE]

\* mutant: on a clash of telegram_user_id the insert overwrites the row
RegInsert_Upserts(p) ==
    /\ At(p, "register", "reg_insert")
    /\ UNCHANGED <<homework, groups, nextHomeworkId, databaseUrl>>
    /\ \E ok \in BOOLEAN :
        LET row == NewStudentData(call[p].arg) @@ [id |-> nextStudentId]
            clash == SelectStudentByTelegramId(row.telegramUserId)
        IN
        IF ok /\ (\A s \in students \ clash : s.studentId # row.studentId)
        THEN /\ students' = (students \ clash) \cup {row}
             /\ nextStudentId' = nextStudentId + 1
             /\ Goto(p, "reg_groupOfNew", [newStudent |-> row])
        ELSE /\ UNCHANGED <<students, nextStudentId>>
             /\ call' = [call EXCEPT ![p].pc = "done", ![p].res = RegError,
                                     ![p].fault = ~ok,
                                     ![p].ghost.rejected = ok]

\* insert into students ... returning; a rejected insert throws
RegInsert(p) ==
    /\ At(p, "register", "reg_insert")
    /\ UNCHANGED <<homework, groups, nextHomeworkId, databaseUrl>>
    /\ \E ok \in BOOLEAN :
        LET row == NewStudentData(call[p].arg) @@ [id |-> nextStudentId] IN
        IF ok /\ StudentInsertAllowed(row)
        THEN /\ students' = students \cup {row}
             /\ nextStudentId' = nextStudentId + 1
             /\ Goto(p, "reg_groupOfNew", [newStudent |-> row])
        ELSE /\ UNCHANGED <<students, nextStudentId>>
             /\ call' = [call EXCEPT ![p].pc = "done", ![p].res = RegError,
                                     ![p].fault = ~ok,
                                     ![p].ghost.rejected = ok]

\* the group name of the inserted row, then the success
RegGroupOfNew(p) ==
    /\ At(p, "register", "reg_groupOfNew")
    /\ StoreUnchanged
    /\ \E ok \in BOOLEAN :
        LET n == call[p].loc.newStudent IN
        IF ~ok THEN Throw(p, RegError)
        ELSE Return(p, RegResult("registered", TRUE,
                                 RegProjection(n, GroupNameOr(n.groupId))))

RegistrationStep(p) ==
    \/ RegSelectByStudentId(p)
    \/ RegGroupOfExisting(p)
    \/ RegSelectByTelegramId(p)
    \/ RegInsert(p)
    \/ RegGroupOfNew(p)

(***************************************************************************)
(* studentVerificationTool                                                 *)
(***************************************************************************)
VerResult(kind, isVerified, student) ==
    [kind |-> kind, isVerified |-> isVerified, student |-> student]

VerError == VerResult("error", FALSE, NoStudent)

\* the joined row of the verification query: the student's columns and the
\* group name of the left join ("" when no group matches)
VerJoin(s) ==
    [id |-> s.id, studentId |-> s.studentId, groupId |-> s.groupId,
     groupName |-> IF SelectGroup(s.groupId) = {} THEN ""
                   ELSE (CHOOSE g \in SelectGroup(s.groupId) : TRUE).groupName,
     accessLevel |-> s.accessLevel, isActive |-> s.isActive,
     telegramUsername |-> s.telegramUsername]

\* the student object of a successful verification result
VerProjection(student) ==
    [id |-> student.id, studentId |-> student.studentId,
     groupId |-> student.groupId, groupName |-> student.groupName,
     accessLevel |-> AccessLevelOr(student.accessLevel),
     isActive |-> (student.isActive \/ TRUE)]

VerBegin(p, tg, user) ==
    /\ CanBegin(p)
    /\ StoreUnchanged
    /\ Begin(p, NewCall("verify", "ver_select",
                        [telegramUserId |-> tg, telegramUsername |-> user], <<>>),
             IF ~databaseUrl THEN VerResult("noDatabaseUrl", FALSE, NoStudent)
             ELSE <<>>)

\* mutant: isActive is not checked
VerSelect_IgnoresIsActive(p) ==
    /\ At(p, "verify", "ver_select")
    /\ StoreUnchanged
    /\ \E ok \in BOOLEAN :
        LET a == call[p].arg
            result == SelectStudentByTelegramId(a.telegramUserId)
        IN  IF ~ok THEN Throw(p, VerError)
            ELSE IF result = {}
            THEN Return(p, VerResult("notFound", FALSE, NoStudent))
            ELSE LET student == VerJoin(CHOOSE s \in result : TRUE) IN
                 IF a.telegramUsername # "" /\
                    a.telegramUsername # student.telegramUsername
                 THEN Goto(p, "ver_update", [student |-> student])
                 ELSE Return(p, VerResult("verified", TRUE, VerProjection(student)))

\* the joined select, then the checks on its result
VerSelect(p) ==
    /\ At(p, "verify", "ver_select")
    /\ StoreUnchanged
    /\ \E ok \in BOOLEAN :
        LET a == call[p].arg
            result == SelectStudentByTelegramId(a.telegramUserId)
        IN  IF ~ok THEN Throw(p, VerError)
            ELSE IF result = {}
            THEN Return(p, VerResult("notFound", FALSE, NoStudent))
            ELSE LET student == VerJoin(CHOOSE s \in result : TRUE) IN
                 IF ~student.isActive
                 THEN Return(p, VerResult("deactivated", FALSE, NoStudent))
                 ELSE IF a.telegramUsername # "" /\
                         a.telegramUsername # student.telegramUsername
                 THEN Goto(p, "ver_update", [student |-> student])
                 ELSE Return(p, VerResult("verified", TRUE, VerProjection(student)))

\* mutant: a thrown update fails the verification
VerUpdate_FailsOnError(p) ==
    /\ At(p, "verify", "ver_update")
    /\ UNCHANGED <<homework, groups, nextStudentId, nextHomeworkId, databaseUrl>>
    /\ \E ok \in BOOLEAN :
        LET a == call[p].arg IN
        IF ok
        THEN /\ students' =
                  {IF s.telegramUserId = a.telegramUserId
                   THEN [s EXCEPT !.telegramUsername = a.telegramUsername]
                   ELSE s : s \in students}
             /\ Return(p, VerResult("verified", TRUE,
                                    VerProjection(call[p].loc.student)))
        ELSE /\ UNCHANGED students
             /\ Throw(p, VerError)

\* mutant: the update has no where clause
VerUpdate_NoWhere(p) ==
    /\ At(p, "verify", "ver_update")
    /\ UNCHANGED <<homework, groups, nextStudentId, nextHomeworkId, databaseUrl>>
    /\ \E ok \in BOOLEAN :
        LET a == call[p].arg IN
        /\ students' =
             IF ok
             THEN {[s EXCEPT !.telegramUsername = a.telegramUsername] :
                     s \in students}
             ELSE students
        /\ call' = [call EXCEPT
                      ![p].pc = "done",
                      ![p].res = VerResult("verified", TRUE,
                                           VerProjection(call[p].loc.student)),
                      ![p].fault = ~ok]

\* update students set telegramUsername where telegramUserId = ...; a thrown
\* update is caught and logged
VerUpdate(p) ==
    /\ At(p, "verify", "ver_update")
    /\ UNCHANGED <<homework, groups, nextStudentId, nextHomeworkId, databaseUrl>>
    /\ \E ok \in BOOLEAN :
        LET a == call[p].arg IN
        /\ students' =
             IF ok
             THEN {IF s.telegramUserId = a.telegramUserId
                   THEN [s EXCEPT !.telegramUsername = a.telegramUsername]
                   ELSE s : s \in students}
             ELSE students
        /\ call' = [call EXCEPT
                      ![p].pc = "done",
                      ![p].res = VerResult("verified", TRUE,
                                           VerProjection(call[p].loc.student)),
                      ![p].fault = ~ok]

VerificationStep(p) == VerSelect(p) \/ VerUpdate(p)

(***************************************************************************)
(* homework tools                                                          *)
(***************************************************************************)
NoHomework == <<>>

HwResult(kind, success, hw) == [kind |-> kind, success |-> success, homework |-> hw]

\* mutant: the student tier is in the list
HasPermission_WithStudent(accessLevel) ==
    AccessLevelOr(accessLevel) \in {"student", "monitor", "admin", "owner"}

\* ['monitor', 'admin', 'owner'].includes(accessLevel || 'student')
HasPermission(accessLevel) ==
    AccessLevelOr(accessLevel) \in {"monitor", "admin", "owner"}

\* mutant: the monitor tier is in the list
IsAdmin_WithMonitor(accessLevel) ==
    AccessLevelOr(accessLevel) \in {"monitor", "admin", "owner"}

\* ['admin', 'owner'].includes(accessLevel || 'student')
IsAdmin(accessLevel) == AccessLevelOr(accessLevel) \in {"admin", "owner"}

\* the columns the homework tools select of the caller's row
CallerColumns(s) == [id |-> s.id, accessLevel |-> s.accessLevel, groupId |-> s.groupId]

\* new Date(dueDate), as its ISO text, "Invalid Date" for a NaN time value
NewDate(dueDate) ==
    IF dueDate = "2025-09-01 10:00" THEN "2025-09-01T10:00:00.000Z"
    ELSE "Invalid Date"

\* mutant: an invalid date is not replaced by null
ParseDueDate_KeepsInvalid(dueDate) ==
    IF dueDate = "" THEN "" ELSE NewDate(dueDate)

\* parsedDueDate: "" is null
ParseDueDate(dueDate) ==
    IF dueDate = "" THEN ""
    ELSE IF NewDate(dueDate) = "Invalid Date" THEN "" ELSE NewDate(dueDate)

\* add calls that have not yet reached their insert
AddsInFlight == Cardinality({q \in Procs : call[q].op = "add" /\ call[q].pc # "done"})

AddBegin(p, tg, groupId, dueDate) ==
    /\ CanBegin(p)
    /\ nextHomeworkId + AddsInFlight <= MaxHomework
    /\ StoreUnchanged
    /\ Begin(p, NewCall("add", "add_creator",
                        [createdByTelegramId |-> tg, groupId |-> groupId,
                         dueDate |-> dueDate], <<>>),
             IF ~databaseUrl THEN HwResult("noDatabaseUrl", FALSE, NoHomework)
             ELSE <<>>)

AddError == HwResult("error", FALSE, NoHomework)

\* mutant: a request for the creator's own group is let through without the
\* tier check
AddSelectCreator_TrustsOwnGroup(p) ==
    /\ At(p, "add", "add_creator")
    /\ StoreUnchanged
    /\ \E ok \in BOOLEAN :
        LET a == call[p].arg
            creator == SelectStudentByTelegramId(a.createdByTelegramId)
        IN  IF ~ok THEN Throw(p, AddError)
            ELSE IF creator = {}
            THEN Return(p, HwResult("notFound", FALSE, NoHomework))
            ELSE LET creatorData == CallerColumns(CHOOSE s \in creator : TRUE)
                     targetGroupId == IF a.groupId # 0 THEN a.groupId
                                      ELSE creatorData.groupId
                 IN  IF /\ ~HasPermission(creatorData.accessLevel)
                        /\ a.groupId # creatorData.groupId
                     THEN Return(p, HwResult("denied", FALSE, NoHomework))
                     ELSE IF targetGroupId = 0
                     THEN Return(p, HwResult("noGroup", FALSE, NoHomework))
                     ELSE Goto(p, "add_group",
                               [creatorData |-> creatorData,
                                targetGroupId |-> targetGroupId])

\* the creator's row, the permission check, the target group
AddSelectCreator(p) ==
    /\ At(p, "add", "add_creator")
    /\ StoreUnchanged
    /\ \E ok \in BOOLEAN :
        LET a == call[p].arg
            creator == SelectStudentByTelegramId(a.createdByTelegramId)
        IN  IF ~ok THEN Throw(p, AddError)
            ELSE IF creator = {}
            THEN Return(p, HwResult("notFound", FALSE, NoHomework))
            ELSE LET creatorData == CallerColumns(CHOOSE s \in creator : TRUE)
                     targetGroupId == IF a.groupId # 0 THEN a.groupId
                                      ELSE creatorData.groupId
                 IN  IF ~HasPermission(creatorData.accessLevel)
                     THEN Return(p, HwResult("denied", FALSE, NoHomework))
                     ELSE IF targetGroupId = 0
                     THEN Return(p, HwResult("noGroup", FALSE, NoHomework))
                     ELSE Goto(p, "add_group",
                               [creatorData |-> creatorData,
                                targetGroupId |-> targetGroupId])

\* mutant: the target group is not looked up
AddSelectGroup_NoCheck(p) ==
    /\ At(p, "add", "add_group")
    /\ StoreUnchanged
    /\ \E ok \in BOOLEAN :
        LET l == call[p].loc IN
        IF ~ok THEN Throw(p, AddError)
        ELSE Goto(p, "add_insert",
                  l @@ [groupName |-> GroupNameOr(l.targetGroupId),
                        parsedDueDate |-> ParseDueDate(call[p].arg.dueDate)])

\* the target group's name; then the due date is parsed
AddSelectGroup(p) ==
    /\ At(p, "add", "add_group")
    /\ StoreUnchanged
    /\ \E ok \in BOOLEAN :
        LET l == call[p].loc
            groupResult == SelectGroup(l.targetGroupId)
        IN  IF ~ok THEN Throw(p, AddError)
            ELSE IF groupResult = {}
            THEN Return(p, HwResult("groupNotFound", FALSE, NoHomework))
            ELSE Goto(p, "add_insert",
                      l @@ [groupName |-> (CHOOSE g \in groupResult : TRUE).groupName,
                            parsedDueDate |-> ParseDueDate(call[p].arg.dueDate)])

\* the foreign keys of the homework table
HomeworkInsertAllowed(row) ==
    /\ row.groupId = 0 \/ \E g \in groups : g.id = row.groupId
    /\ row.createdBy = 0 \/ \E s \in students : s.id = row.createdBy

\* insert into homework ... returning, then client.end(); either may throw
AddInsert(p) ==
    /\ At(p, "add", "add_insert")
    /\ UNCHANGED <<students, groups, nextStudentId, databaseUrl>>
    /\ \E ok \in BOOLEAN, ended \in BOOLEAN :
        LET l == call[p].loc
            created == [id |-> nextHomeworkId, dueDate |-> l.parsedDueDate,
                        groupId |-> l.targetGroupId,
                        createdBy |-> l.creatorData.id,
                        createdAt |-> nextHomeworkId]
        IN  IF ok /\ HomeworkInsertAllowed(created)
            THEN /\ homework' = homework \cup {created}
                 /\ nextHomeworkId' = nextHomeworkId + 1
                 /\ IF ended
                    THEN Return(p, HwResult("created", TRUE,
                                            [id |-> created.id,
                                             dueDate |-> created.dueDate,
                                             groupName |-> l.groupName]))
                    ELSE Throw(p, AddError)
            ELSE /\ UNCHANGED <<homework, nextHomeworkId>>
                 /\ call' = [call EXCEPT ![p].pc = "done", ![p].res = AddError,
                                         ![p].fault = ~ok]

AddStep(p) == AddSelectCreator(p) \/ AddSelectGroup(p) \/ AddInsert(p)

ViewResult(kind, success, list) ==
    [kind |-> kind, success |-> success, homeworkList |-> list]

ViewError == ViewResult("error", FALSE, <<>>)

ViewBegin(p, tg, groupId, limit) ==
    /\ CanBegin(p)
    /\ StoreUnchanged
    /\ Begin(p, NewCall("view", "view_user",
                        [telegramUserId |-> tg, groupId |-> groupId,
                         limit |-> limit], <<>>),
             IF ~databaseUrl THEN ViewResult("noDatabaseUrl", FALSE, <<>>)
             ELSE <<>>)

\* the viewer's row, then the group whose homework is shown
ViewSelectUser(p) ==
    /\ At(p, "view", "view_user")
    /\ StoreUnchanged
    /\ \E ok \in BOOLEAN :
        LET a == call[p].arg
            user == SelectStudentByTelegramId(a.telegramUserId)
        IN  IF ~ok THEN Throw(p, ViewError)
            ELSE IF user = {}
            THEN Return(p, ViewResult("notFound", FALSE, <<>>))
            ELSE LET userData == CallerColumns(CHOOSE s \in user : TRUE)
                     isAdmin == IsAdmin(userData.accessLevel)
                     targetGroupId == IF ~isAdmin \/ a.groupId = 0
                                      THEN userData.groupId ELSE a.groupId
                 IN  IF targetGroupId = 0
                     THEN Return(p, ViewResult("noGroup", FALSE, <<>>))
                     ELSE Goto(p, "view_homework",
                               [userData |-> userData,
                                targetGroupId |-> targetGroupId])

\* order by createdAt desc
RECURSIVE OrderByCreatedAtDesc(_)
OrderByCreatedAtDesc(rows) ==
    IF rows = {} THEN <<>>
    ELSE LET newest == CHOOSE h \in rows : \A o \in rows : o.createdAt <= h.createdAt
         IN  <<newest>> \o OrderByCreatedAtDesc(rows \ {newest})

\* limit n
Limit(seq, n) == SubSeq(seq, 1, IF Len(seq) < n THEN Len(seq) ELSE n)

\* one element of homeworkList: the row joined with its group's name
ViewItem(hw) ==
    [id |-> hw.id, dueDate |-> hw.dueDate,
     groupName |-> GroupNameOr(hw.groupId)]

\* mutant: the query has no condition on the group
ViewSelectHomework_AllGroups(p) ==
    /\ At(p, "view", "view_homework")
    /\ StoreUnchanged
    /\ \E ok \in BOOLEAN :
        LET homeworkResults ==
                Limit(OrderByCreatedAtDesc(homework), call[p].arg.limit)
        IN  IF ~ok THEN Throw(p, ViewError)
            ELSE Return(p, ViewResult("listed", TRUE,
                     [i \in DOMAIN homeworkResults |-> ViewItem(homeworkResults[i])]))

\* the homework of the target group, newest first, capped
ViewSelectHomework(p) ==
    /\ At(p, "view", "view_homework")
    /\ StoreUnchanged
    /\ \E ok \in BOOLEAN :
        LET l == call[p].loc
            homeworkResults ==
                Limit(OrderByCreatedAtDesc(
                          {hw \in homework : hw.groupId = l.targetGroupId}),
                      call[p].arg.limit)
        IN  IF ~ok THEN Throw(p, ViewError)
            ELSE Return(p, ViewResult("listed", TRUE,
                     [i \in DOMAIN homeworkResults |-> ViewItem(homeworkResults[i])]))

ViewStep(p) == ViewSelectUser(p) \/ ViewSelectHomework(p)

DelResult(kind, success) == [kind |-> kind, success |-> success]

DelError == DelResult("error", FALSE)

DelBegin(p, tg, homeworkId) ==
    /\ CanBegin(p)
    /\ StoreUnchanged
    /\ Begin(p, NewCall("delete", "del_user",
                        [telegramUserId |-> tg, homeworkId |-> homeworkId], <<>>),
             IF ~databaseUrl THEN DelResult("noDatabaseUrl", FALSE) ELSE <<>>)

\* mutant: the row is deleted before the permission is checked
DelSelectUser_DeniesAfterDelete(p) ==
    /\ At(p, "delete", "del_user")
    /\ UNCHANGED <<students, groups, nextStudentId, nextHomeworkId, databaseUrl>>
    /\ \E ok \in BOOLEAN :
        LET a == call[p].arg
            user == SelectStudentByTelegramId(a.telegramUserId)
        IN  IF ~ok THEN UNCHANGED homework /\ Throw(p, DelError)
            ELSE IF user = {}
            THEN UNCHANGED homework /\ Return(p, DelResult("notFound", FALSE))
            ELSE LET userData == CallerColumns(CHOOSE s \in user : TRUE) IN
                 IF ~HasPermission(userData.accessLevel)
                 THEN /\ homework' = {hw \in homework : hw.id # a.homeworkId}
                      /\ Return(p, DelResult("denied", FALSE))
                 ELSE /\ UNCHANGED homework
                      /\ Goto(p, "del_homework", [userData |-> userData])

\* the caller's row and the permission check
DelSelectUser(p) ==
    /\ At(p, "delete", "del_user")
    /\ StoreUnchanged
    /\ \E ok \in BOOLEAN :
        LET a == call[p].arg
            user == SelectStudentByTelegramId(a.telegramUserId)
        IN  IF ~ok THEN Throw(p, DelError)
            ELSE IF user = {}
            THEN Return(p, DelResult("notFound", FALSE))
            ELSE LET userData == CallerColumns(CHOOSE s \in user : TRUE) IN
                 IF ~HasPermission(userData.accessLevel)
                 THEN Return(p, DelResult("denied", FALSE))
                 ELSE Goto(p, "del_homework", [userData |-> userData])

\* mutant: the row's existence is not checked
DelSelectHomework_NoCheck(p) ==
    /\ At(p, "delete", "del_homework")
    /\ StoreUnchanged
    /\ \E ok \in BOOLEAN :
        IF ~ok THEN Throw(p, DelError)
        ELSE Goto(p, "del_delete",
                  call[p].loc @@
                  [existingHomework |-> [id |-> call[p].arg.homeworkId]])

\* the homework row to delete must exist
DelSelectHomework(p) ==
    /\ At(p, "delete", "del_homework")
    /\ StoreUnchanged
    /\ \E ok \in BOOLEAN :
        LET existingHomework == {hw \in homework : hw.id = call[p].arg.homeworkId}
        IN  IF ~ok THEN Throw(p, DelError)
            ELSE IF existingHomework = {}
            THEN Return(p, DelResult("homeworkNotFound", FALSE))
            ELSE Goto(p, "del_delete",
                      call[p].loc @@
                      [existingHomework |->
                         [id |-> (CHOOSE hw \in existingHomework : TRUE).id]])

\* mutant: the delete statement is outside the try block
DelDelete_Uncaught(p) ==
    /\ At(p, "delete", "del_delete")
    /\ UNCHANGED <<students, groups, nextStudentId, nextHomeworkId, databaseUrl>>
    /\ \E ok \in BOOLEAN :
        IF ok
        THEN /\ homework' = {hw \in homework : hw.id # call[p].arg.homeworkId}
             /\ Return(p, DelResult("deleted", TRUE))
        ELSE /\ UNCHANGED homework
             /\ call' = [call EXCEPT ![p].pc = "raised", ![p].fault = TRUE]

\* delete from homework where id = homeworkId, then client.end(); either may
\* throw
DelDelete(p) ==
    /\ At(p, "delete", "del_delete")
    /\ UNCHANGED <<students, groups, nextStudentId, nextHomeworkId, databaseUrl>>
    /\ \E ok \in BOOLEAN, ended \in BOOLEAN :
        IF ok
        THEN /\ homework' = {hw \in homework : hw.id # call[p].arg.homeworkId}
             /\ IF ended THEN Return(p, DelResult("deleted", TRUE))
                         ELSE Throw(p, DelError)
        ELSE /\ UNCHANGED homework
             /\ Throw(p, DelError)

DelStep(p) == DelSelectUser(p) \/ DelSelectHomework(p) \/ DelDelete(p)

(***************************************************************************)
(* Outside the tools                                                       *)
(***************************************************************************)
\* an administrator deactivates or reactivates a student in the store
AdminSetActive(tg, active) ==
    /\ \E s \in students : s.telegramUserId = tg /\ s.isActive # active
    /\ students' = {IF s.telegramUserId = tg THEN [s EXCEPT !.isActive = active]
                    ELSE s : s \in students}
    /\ UNCHANGED <<homework, groups, nextStudentId, nextHomeworkId, databaseUrl,
                   call>>

\* an administrator changes a student's tier in the store
AdminSetAccessLevel(tg, level) ==
    /\ \E s \in students : s.telegramUserId = tg /\ s.accessLevel # level
    /\ students' = {IF s.telegramUserId = tg THEN [s EXCEPT !.accessLevel = level]
                    ELSE s : s \in students}
    /\ UNCHANGED <<homework, groups, nextStudentId, nextHomeworkId, databaseUrl,
                   call>>

\* an administrator moves a student to a group, or to none (0)
AdminSetGroup(tg, gid) ==
    /\ \E s \in students : s.telegramUserId = tg /\ s.groupId # gid
    /\ gid = 0 \/ \E g \in groups : g.id = gid
    /\ students' = {IF s.telegramUserId = tg THEN [s EXCEPT !.groupId = gid]
                    ELSE s : s \in students}
    /\ UNCHANGED <<homework, groups, nextStudentId, nextHomeworkId, databaseUrl,
                   call>>

(***************************************************************************)
(* classManagementWorkflow: step1 (use-agent), step2 (send-telegram-reply) *)
(***************************************************************************)
\* maxSteps of agent.generate
maxSteps == 5

\* inbound messages (a private chat has the sender's id, a group chat its
\* own), texts the agent may produce
Inbound == {[chatId |-> 101, telegramUserId |-> 101],
            [chatId |-> 500, telegramUserId |-> 102]}
Replies == {"", "reply"}

NoRun == [stage |-> "idle", input |-> <<>>, steps |-> 0, text |-> "",
          out |-> <<>>, attempts |-> 0, sends |-> 0, payload |-> <<>>,
          response |-> "", sent |-> FALSE]

\* the workflow is started on an inbound message
WorkflowStart(p, inputData) ==
    /\ run[p].stage = "idle"
    /\ run' = [run EXCEPT ![p] =
                 [NoRun EXCEPT !.stage = "step1", !.input = inputData]]
    /\ StoreUnchanged
    /\ UNCHANGED <<call, botToken>>

\* one step of agent.generate that calls a tool of the agent's tool set
AgentCallsTool(p, begin) ==
    /\ run[p].stage = "step1"
    /\ run[p].steps < maxSteps
    /\ begin
    /\ run' = [run EXCEPT ![p].steps = @ + 1]
    /\ UNCHANGED botToken

\* mutant: step 1 returns the sender's id as the chat
Step1Output_RepliesToSender(inputData, text) ==
    [response |-> text, chatId |-> inputData.telegramUserId]

\* return { response: text, chatId: chatId }
Step1Output(inputData, text) ==
    [response |-> text, chatId |-> inputData.chatId]

\* agent.generate resolves with its text; step 1 returns and step 2 is next
AgentReturns(p, text) ==
    /\ run[p].stage = "step1"
    /\ call[p].pc = "idle"
    /\ run' = [run EXCEPT ![p].stage = "step2",
                          ![p].text = text,
                          ![p].out = Step1Output(run[p].input, text)]
    /\ StoreUnchanged
    /\ UNCHANGED <<call, botToken>>

\* agent.generate rejects (the model provider fails): step 1 has no catch,
\* the run fails and step 2 is not executed
AgentThrows(p) ==
    /\ run[p].stage = "step1"
    /\ call[p].pc = "idle"
    /\ run' = [run EXCEPT ![p].stage = "failed"]
    /\ StoreUnchanged
    /\ UNCHANGED <<call, botToken>>

\* const payload = { chat_id: chatId, text: response, ... }
Payload(inputData) == [chat_id |-> inputData.chatId, text |-> inputData.response]

\* step 2 up to the fetch: the bot token check, the payload
Step2Begin(p) ==
    /\ run[p].stage = "step2"
    /\ run' = [run EXCEPT ![p] =
                 IF ~botToken
                 THEN [@ EXCEPT !.stage = "done", !.attempts = @ + 1,
                                !.sent = FALSE]
                 ELSE [@ EXCEPT !.stage = "fetch", !.attempts = @ + 1,
                                !.sends = @ + 1,
                                !.payload = Payload(run[p].out)]]
    /\ StoreUnchanged
    /\ UNCHANGED <<call, botToken>>

\* the transport's answers to the fetch
Responses == {"ok", "notOk", "throws"}

\* mutant: telegramResponse.ok is not looked at
Step2Fetch_IgnoresStatus(p) ==
    /\ run[p].stage = "fetch"
    /\ \E response \in Responses :
          run' = [run EXCEPT ![p].stage = "done", ![p].response = response,
                             ![p].sent = (response # "throws")]
    /\ StoreUnchanged
    /\ UNCHANGED <<call, botToken>>

\* await fetch(...): sent is true for an OK response only
Step2Fetch(p) ==
    /\ run[p].stage = "fetch"
    /\ \E response \in Responses :
          run' = [run EXCEPT ![p].stage = "done", ![p].response = response,
                             ![p].sent = (response = "ok")]
    /\ StoreUnchanged
    /\ UNCHANGED <<call, botToken>>

\* the run has ended, the next message may come
WorkflowFinish(p) ==
    /\ run[p].stage \in {"done", "failed"}
    /\ run' = [run EXCEPT ![p] = NoRun]
    /\ StoreUnchanged
    /\ UNCHANGED <<call, botToken>>

(***************************************************************************)
(* Specifications                                                          *)
(***************************************************************************)
Init ==
    /\ students = {}
    /\ homework = {}
    /\ groups = GroupRows
    /\ nextStudentId = 1
    /\ nextHomeworkId = 1
    /\ databaseUrl \in BOOLEAN
    /\ call = [p \in Procs |-> NoCall]
    /\ run = [p \in Procs |-> NoRun]
    /\ botToken \in BOOLEAN

\* the tools a message's agent turn may invoke
ToolBegin(p) ==
    \/ \E tg \in TelegramIds, user \in Usernames, sid \in StudentIdInputs :
          RegBegin(p, tg, user, sid)
    \/ \E tg \in TelegramIds, user \in Usernames : VerBegin(p, tg, user)
    \/ \E tg \in TelegramIds, g \in GroupIdInputs, d \in DueDateInputs :
          AddBegin(p, tg, g, d)
    \/ \E tg \in TelegramIds, g \in GroupIdInputs, n \in LimitInputs :
          ViewBegin(p, tg, g, n)
    \/ \E tg \in TelegramIds, h \in 1..(MaxHomework + 1) : DelBegin(p, tg, h)

ToolStep(p) ==
    \/ RegistrationStep(p)
    \/ VerificationStep(p)
    \/ AddStep(p)
    \/ ViewStep(p)
    \/ DelStep(p)
    \/ ToolReturn(p)

Admin == \E tg \in TelegramIds, active \in BOOLEAN : AdminSetActive(tg, active)

\* every tool, any interleaving of the messages' calls
Next ==
    /\ PipelineUnchanged
    /\ (\E p \in Procs : ToolBegin(p) \/ ToolStep(p)) \/ Admin

Spec == Init /\ [][Next]_vars

\* two messages' registrations race (no handle is passed)
RaceStudentIds == {st001, ST001, ST002}

NextRegistration ==
    /\ PipelineUnchanged
    /\ \E p \in Procs :
        \/ \E tg \in TelegramIds, sid \in RaceStudentIds : RegBegin(p, tg, "", sid)
        \/ RegistrationStep(p)
        \/ ToolReturn(p)

SpecRegistration == Init /\ [][NextRegistration]_vars

\* two messages' calls of every tool interleave (few inputs)
NextInterleaved ==
    /\ PipelineUnchanged
    /\ \E p \in Procs :
        \/ \E tg \in TelegramIds, sid \in {ST001, ST002} : RegBegin(p, tg, "", sid)
        \/ \E tg \in TelegramIds : VerBegin(p, tg, "anna")
        \/ AddBegin(p, 101, 0, "")
        \/ ViewBegin(p, 101, 0, 10)
        \/ DelBegin(p, 101, 1)
        \/ ToolStep(p)

SpecInterleaved == Init /\ [][NextInterleaved]_vars

\* one message at a time: registration and verification, every input
NextIdentity ==
    /\ PipelineUnchanged
    /\ \/ \E tg \in TelegramIds, user \in Usernames, sid \in StudentIdInputs :
             RegBegin("m1", tg, user, sid)
       \/ \E tg \in TelegramIds, user \in Usernames : VerBegin("m1", tg, user)
       \/ RegistrationStep("m1")
       \/ VerificationStep("m1")
       \/ ToolReturn("m1")
       \/ Admin

SpecIdentity == Init /\ [][NextIdentity]_vars

\* one message at a time: the homework tools over the registered students
HomeworkStudentIds == {ST001, ST002, ST004}

NextHomework ==
    /\ PipelineUnchanged
    /\ \/ \E tg \in TelegramIds, sid \in HomeworkStudentIds : RegBegin("m1", tg, "", sid)
       \/ \E tg \in TelegramIds, g \in GroupIdInputs, d \in DueDateInputs :
             AddBegin("m1", tg, g, d)
       \/ \E tg \in TelegramIds, g \in GroupIdInputs, n \in LimitInputs :
             ViewBegin("m1", tg, g, n)
       \/ \E tg \in TelegramIds, h \in 1..(MaxHomework + 1) : DelBegin("m1", tg, h)
       \/ RegistrationStep("m1")
       \/ AddStep("m1")
       \/ ViewStep("m1")
       \/ DelStep("m1")
       \/ ToolReturn("m1")
       \/ Admin

SpecHomework == Init /\ [][NextHomework]_vars

\* one message at a time: the homework tools called for one identity while
\* an administrator changes that student's tier and group in the store
AccessLevels == {"", "student", "monitor", "admin", "owner"}
AdministeredStudentIds == {ST001, ST004}

NextAdministered ==
    /\ PipelineUnchanged
    /\ \/ \E sid \in AdministeredStudentIds : RegBegin("m1", 101, "", sid)
       \/ \E g \in {0, 2, 4} : AddBegin("m1", 101, g, "")
       \/ \E g \in {0, 1, 2} : ViewBegin("m1", 101, g, 10)
       \/ DelBegin("m1", 101, 1)
       \/ RegistrationStep("m1")
       \/ AddStep("m1")
       \/ ViewStep("m1")
       \/ DelStep("m1")
       \/ ToolReturn("m1")
       \/ \E level \in AccessLevels : AdminSetAccessLevel(101, level)
       \/ \E gid \in {0, 1, 2} : AdminSetGroup(101, gid)

SpecAdministered == Init /\ [][NextAdministered]_vars

\* the workflow runs of two messages; the agent registers the sender as the
\* monitor ST002 and adds homework
AgentTool(p) ==
    LET tg == run[p].input.telegramUserId IN
    \/ AgentCallsTool(p, RegBegin(p, tg, "", ST002))
    \/ AgentCallsTool(p, AddBegin(p, tg, 0, ""))

NextPipeline ==
    \E p \in Procs :
        \/ \E inputData \in Inbound : WorkflowStart(p, inputData)
        \/ AgentTool(p)
        \/ (RegistrationStep(p) \/ AddStep(p) \/ ToolReturn(p))
              /\ PipelineUnchanged
        \/ \E text \in Replies : AgentReturns(p, text)
        \/ AgentThrows(p)
        \/ Step2Begin(p)
        \/ Step2Fetch(p)
        \/ WorkflowFinish(p)

SpecPipeline == Init /\ [][NextPipeline]_vars

(***************************************************************************)
(* Properties                                                              *)
(***************************************************************************)
Done(p, op) == call[p].op = op /\ call[p].pc = "done"

\* the connection string is set and no store statement of the call threw
Clean(p) == databaseUrl /\ ~call[p].fault

\* p takes a step
Steps(p) == call'[p] # call[p]

CallerRows(tg) == {s \in students : s.telegramUserId = tg}

\* two finished registrations of one studentId by two identities, each begun
\* when neither its studentId nor its identity was bound
RacePair(p, q) ==
    /\ p # q
    /\ Done(p, "register") /\ Done(q, "register")
    /\ Clean(p) /\ Clean(q)
    /\ call[p].arg.telegramUserId # call[q].arg.telegramUserId
    /\ RosterKey(call[p].arg.studentId) = RosterKey(call[q].arg.studentId)
    /\ call[p].ghost.expect = "registered"
    /\ call[q].ghost.expect = "registered"

\* C1: of two registrations racing for one studentId from two identities,
\* under every interleaving of their statements, exactly one returns success,
\* and the table holds exactly one row of that studentId, the winner's.
C1_ExactlyOneRegisters ==
    \A p, q \in Procs :
        RacePair(p, q) =>
            LET rows == {s \in students :
                           s.studentId = RosterKey(call[p].arg.studentId)}
            IN  /\ call[p].res.success # call[q].res.success
                /\ Cardinality(rows) = 1
                /\ \A s \in rows : \A w \in {p, q} :
                      call[w].res.success <=>
                          s.telegramUserId = call[w].arg.telegramUserId

\* both passed the existence checks before either inserted
C1_Witness == \E p, q \in Procs : RacePair(p, q) /\ call[q].ghost.rejected

\* C2: in every reachable state, whatever calls of the tools interleaved, no
\* two student rows share a telegramUserId and no two share a studentId.
C2_UniqueBindings ==
    \A s, t \in students :
        s # t => /\ s.telegramUserId # t.telegramUserId
                 /\ s.studentId # t.studentId

\* two rows, an insert a constraint refused, and the other tools at work
C2_Witness ==
    /\ Cardinality(students) = 2
    /\ homework # {}
    /\ \E s \in students : s.telegramUsername # ""
    /\ \E p \in Procs : Done(p, "register") /\ call[p].ghost.rejected

SameStudent(a, b) ==
    /\ a.id = b.id
    /\ a.studentId = b.studentId
    /\ a.groupId = b.groupId
    /\ a.accessLevel = b.accessLevel

\* p's registration repeats the successful registration before it
Repeated(p) == call[p].op = "register" /\ call[p].ghost.previous # NoStudent

C3_Result ==
    \A p \in Procs :
        Done(p, "register") /\ Repeated(p) /\ ~call[p].fault =>
            /\ call[p].res.success
            /\ SameStudent(call[p].res.student, call[p].ghost.previous)

C3_Frame ==
    \A p \in Procs :
        Repeated(p) /\ call[p].pc # "done" /\ Steps(p) => students' = students

\* C3: a registration repeating a successful one (same identity, same
\* studentId) succeeds too, returns the same id, studentId, groupId and
\* accessLevel, and none of its steps changes the students table.
C3_Idempotent == []C3_Result /\ [][C3_Frame]_vars

C3_Witness ==
    \E p \in Procs :
        /\ Done(p, "register") /\ Repeated(p) /\ ~call[p].fault
        /\ call[p].res.kind = "already"

\* C4: a registration whose insert a unique constraint rejected reports the
\* conflict outcome of the sequential path, not the generic error.
C4_RejectedInsertReportsConflict ==
    \A p \in Procs :
        Done(p, "register") /\ call[p].ghost.rejected =>
            call[p].res.kind \in {"claimed", "bound"}

CallerOf(p) ==
    IF call[p].op = "add" THEN call[p].arg.createdByTelegramId
    ELSE call[p].arg.telegramUserId

ReadsCaller(p) == call[p].pc \in {"add_creator", "view_user", "del_user"}

C5_Step ==
    \A p \in Procs :
        (/\ ReadsCaller(p) /\ Steps(p)
         /\ \E s \in CallerRows(CallerOf(p)) : ~s.isActive)
        => call'[p].pc = "done" /\ ~call'[p].res.success

\* C5: a homework tool that reads a caller row with isActive = false returns
\* failure there (so Add inserts nothing, Delete deletes nothing, View lists
\* nothing), whatever the row's accessLevel.
C5_InactiveCallerRefused == [][C5_Step]_vars

C6_Step ==
    \A p \in Procs :
        /\ (At(p, "verify", "ver_select") /\ Steps(p) /\ ~call'[p].fault) =>
              IF \E s \in CallerRows(call[p].arg.telegramUserId) : s.isActive = TRUE
              THEN \/ call'[p].pc = "ver_update"
                   \/ /\ call'[p].pc = "done"
                      /\ call'[p].res.isVerified
                      /\ call'[p].res.student # NoStudent
              ELSE /\ call'[p].pc = "done"
                   /\ ~call'[p].res.isVerified
                   /\ call'[p].res.student = NoStudent
        /\ (At(p, "verify", "ver_update") /\ Steps(p)) =>
              /\ call'[p].pc = "done"
              /\ call'[p].res.isVerified
              /\ call'[p].res.student # NoStudent

\* C6: when its query does not throw, verification returns isVerified = TRUE
\* exactly when a row of the identity exists with isActive = TRUE; with no
\* row or an inactive row it returns isVerified = FALSE and no student,
\* whatever the other columns and the handle passed.
C6_VerifiedIffActive == [][C6_Step]_vars

C6_Witness ==
    \E p \in Procs :
        /\ Done(p, "verify") /\ call[p].res.kind = "deactivated"
        /\ \E s \in CallerRows(call[p].arg.telegramUserId) :
              s.accessLevel # "student" /\ ~s.isActive

Privileged(s) == s.accessLevel \in {"monitor", "admin", "owner"}

\* a finished Add or Delete that reached the store without a thrown statement
GatedCall(p) == (Done(p, "add") \/ Done(p, "delete")) /\ Clean(p)

\* C7 as stated: a student-tier caller of Add or Delete gets the denial, a
\* monitor, admin or owner caller always gets success (no store error).
C7_Original ==
    \A p \in Procs : GatedCall(p) =>
        \A s \in CallerRows(CallerOf(p)) :
            /\ s.accessLevel = "student" =>
                  ~call[p].res.success /\ call[p].res.kind = "denied"
            /\ Privileged(s) => call[p].res.success

\* the group an Add of caller row s targets
AddTarget(p, s) ==
    IF call[p].arg.groupId # 0 THEN call[p].arg.groupId ELSE s.groupId

\* C7, amended: a student-tier caller of Add or Delete gets the denial; a
\* monitor, admin or owner caller is never denied and, with no store error,
\* Add succeeds exactly when its target group exists and Delete fails only
\* with not-found for a homework id that is not in the table.
C7_TierGating ==
    \A p \in Procs : GatedCall(p) =>
        \A s \in CallerRows(CallerOf(p)) :
            /\ s.accessLevel = "student" =>
                  ~call[p].res.success /\ call[p].res.kind = "denied"
            /\ Privileged(s) /\ call[p].op = "add" =>
                  /\ call[p].res.kind # "denied"
                  /\ call[p].res.success <=>
                        \E g \in groups : g.id = AddTarget(p, s)
            /\ Privileged(s) /\ call[p].op = "delete" =>
                  \/ call[p].res.success /\ call[p].res.kind = "deleted"
                  \/ /\ call[p].res.kind = "homeworkNotFound"
                     /\ \A hw \in homework : hw.id # call[p].arg.homeworkId

\* a student is denied the Delete of a homework row that exists
C7_Witness ==
    \E p \in Procs :
        /\ Done(p, "delete") /\ call[p].res.kind = "denied"
        /\ \E hw \in homework : hw.id = call[p].arg.homeworkId

\* a student or monitor views with a groupId that is not the caller's group
ForeignView(p, s) ==
    /\ Done(p, "view") /\ call[p].res.success
    /\ s \in CallerRows(call[p].arg.telegramUserId)
    /\ s.accessLevel \in {"student", "monitor"}
    /\ call[p].arg.groupId # 0
    /\ call[p].arg.groupId # s.groupId

\* C8: a View by a student or monitor asking for a group X other than the
\* caller's returns only homework of the caller's group, none of X.
C8_ViewScopedToOwnGroup ==
    \A p \in Procs : \A s \in students :
        ForeignView(p, s) =>
            \A i \in DOMAIN call[p].res.homeworkList :
                \E hw \in homework :
                    /\ hw.id = call[p].res.homeworkList[i].id
                    /\ hw.groupId = s.groupId
                    /\ hw.groupId # call[p].arg.groupId

C8_Witness ==
    \E p \in Procs : \E s \in students :
        /\ ForeignView(p, s)
        /\ Len(call[p].res.homeworkList) > 0
        /\ \E hw \in homework : hw.groupId = call[p].arg.groupId

C9_Add ==
    \A hw \in homework : \A s \in students :
        s.id = hw.createdBy /\ s.accessLevel = "monitor" =>
            hw.groupId = s.groupId

C9_Delete ==
    \A p \in Procs :
        (/\ At(p, "delete", "del_delete") /\ Steps(p)
         /\ \E s \in CallerRows(call[p].arg.telegramUserId) :
               /\ s.accessLevel = "monitor"
               /\ \E hw \in homework :
                     hw.id = call[p].arg.homeworkId /\ hw.groupId # s.groupId)
        => homework' = homework

\* C9: a monitor adds and deletes homework only in the monitor's own group:
\* no homework row created by a monitor is in another group, and a monitor's
\* Delete never removes a row of another group.
C9_MonitorWithinOwnGroup == []C9_Add /\ [][C9_Delete]_vars

\* C10: registration's outcome is the one the precedence prescribes on the
\* table the call began on: not authorized; else the idempotent success with
\* the existing row; else studentId claimed; else identity bound, naming its
\* studentId; else the insert and success.
C10_Precedence ==
    \A p \in Procs :
        (/\ Done(p, "register") /\ ~call[p].fault
         /\ databaseUrl \/ call[p].ghost.expect = "notAuthorized") =>
            LET a == call[p].arg
                r == call[p].res
                key == RosterKey(a.studentId)
                mine == {s \in students : /\ s.studentId = key
                                          /\ s.telegramUserId = a.telegramUserId}
            IN  /\ r.kind = call[p].ghost.expect
                /\ r.success <=> r.kind \in {"already", "registered"}
                /\ r.success =>
                      \E s \in mine : /\ r.student.id = s.id
                                      /\ r.student.studentId = key
                /\ r.kind = "claimed" =>
                      \E s \in students : /\ s.studentId = key
                                          /\ s.telegramUserId # a.telegramUserId
                /\ r.kind = "bound" =>
                      \E s \in students : /\ s.telegramUserId = a.telegramUserId
                                          /\ s.studentId = r.boundTo
                                          /\ s.studentId # key

\* the studentId is claimed by another identity and the caller's identity is
\* bound to another studentId: the claimed outcome is reported
C10_Witness ==
    \E p \in Procs :
        /\ Done(p, "register") /\ Clean(p)
        /\ call[p].res.kind = "claimed"
        /\ CallerRows(call[p].arg.telegramUserId) # {}

\* C11: a registration that returns failure after a store statement threw has
\* left no row of its own in the students table.
C11_NoPartialInsert ==
    \A p \in Procs :
        (Done(p, "register") /\ call[p].fault /\ ~call[p].res.success) =>
            \A s \in students :
                ~(/\ s.telegramUserId = call[p].arg.telegramUserId
                  /\ s.studentId = RosterKey(call[p].arg.studentId)
                  /\ call[p].ghost.expect = "registered")

Conflict(r) == r.kind \in {"claimed", "bound"}

C12_Step ==
    \A p \in Procs :
        (Steps(p) /\ call'[p].op = "register") =>
            /\ call'[p].pc = "reg_byStudentId" =>
                  /\ call[p].pc \in {"idle", "done"}
                  /\ students' = students
            /\ call'[p].pc = "reg_byTelegramId" =>
                  /\ call[p].pc = "reg_byStudentId"
                  /\ students' = students
            /\ (call'[p].pc = "done" /\ Conflict(call'[p].res)) =>
                  /\ call[p].pc \in {"reg_byStudentId", "reg_byTelegramId"}
                  /\ students' = students

\* C12: a registration that ends in a conflict (studentId claimed by another
\* identity, or identity bound to another studentId) has changed the students
\* table in none of its steps: the conflict is returned by one of the two
\* existence queries, and every step up to there leaves the table as it was.
C12_ConflictFrame == [][C12_Step]_vars

\* the identity is bound to another studentId, and the table holds two rows
C12_Witness ==
    \E p \in Procs :
        /\ Done(p, "register") /\ call[p].res.kind = "bound"
        /\ Cardinality(students) = 2

\* C13: a registration whose normalized studentId is not in the roster is
\* never at a store statement: it returns the not-authorized failure at once,
\* with the connection string set or not, whatever the tables hold.
C13_NotAuthorizedBeforeStore ==
    \A p \in Procs :
        (/\ call[p].op = "register"
         /\ RosterKey(call[p].arg.studentId) \notin
                {ST001, ST002, ST003, ST004, ST005, ST006}) =>
            /\ call[p].pc = "done"
            /\ call[p].res = RegResult("notAuthorized", FALSE, NoStudent)
            /\ ~call[p].fault

C13_Witness ==
    \E p \in Procs :
        /\ Done(p, "register") /\ call[p].res.kind = "notAuthorized"
        /\ ~databaseUrl

HomeworkWithId(H, id) == {hw \in H : hw.id = id}

C14_Step ==
    \A p \in Procs :
        (Steps(p) /\ call'[p].op = "delete") =>
            LET id == call'[p].arg.homeworkId
                returned == call'[p].pc = "done"
            IN  /\ HomeworkWithId(homework, id) = {} =>
                      /\ homework' = homework
                      /\ returned => ~call'[p].res.success
                      /\ (At(p, "delete", "del_homework") /\ ~call'[p].fault) =>
                            /\ returned
                            /\ call'[p].res.kind = "homeworkNotFound"
                /\ (returned /\ call'[p].res.success) =>
                      /\ HomeworkWithId(homework, id) # {}
                      /\ HomeworkWithId(homework', id) = {}
                      /\ homework' = homework \ HomeworkWithId(homework, id)

\* C14: a Delete of a homework id that is not in the table returns failure
\* (not-found when the caller is permitted and no statement throws) and
\* leaves the homework table unchanged; a Delete returns success only when
\* the row was there and its delete statement removed it.
C14_DeleteNotFound == [][C14_Step]_vars

\* not-found is reported while the table holds other rows
C14_Witness ==
    \E p \in Procs :
        /\ Done(p, "delete") /\ call[p].res.kind = "homeworkNotFound"
        /\ homework # {}

Denied(c) == c.op \in {"add", "delete"} /\ c.pc = "done" /\ c.res.kind = "denied"

C15_Step ==
    \A p \in Procs :
        (Steps(p) /\ call'[p].op \in {"add", "delete"}) =>
            /\ call'[p].pc \in {"add_creator", "del_user"} =>
                  call[p].pc = "idle" /\ homework' = homework
            /\ Denied(call'[p]) =>
                  /\ call[p].pc \in {"add_creator", "del_user"}
                  /\ homework' = homework
                  /\ nextHomeworkId' = nextHomeworkId

\* C15: an Add or Delete refused for the student tier has changed the
\* homework table in none of its steps: the refusal is returned by the first
\* statement of the call, which leaves the table as it was.
C15_DeniedFrame == [][C15_Step]_vars

\* a student-tier caller is refused the Delete of a row that is still there
C15_Witness ==
    \E p \in Procs :
        /\ Denied(call[p]) /\ call[p].op = "delete"
        /\ \E s \in CallerRows(call[p].arg.telegramUserId) :
              s.accessLevel = "student"
        /\ HomeworkWithId(homework, call[p].arg.homeworkId) # {}

\* due date texts no date can be read from
Unparseable == {"next week"}

C16_Result ==
    \A p \in Procs :
        (/\ Done(p, "add") /\ Clean(p)
         /\ call[p].arg.dueDate \in Unparseable
         /\ \E s \in CallerRows(CallerOf(p)) :
               /\ Privileged(s)
               /\ \E g \in groups : g.id = AddTarget(p, s)) =>
            /\ call[p].res.success
            /\ call[p].res.homework.dueDate = ""
            /\ \E hw \in homework :
                  hw.id = call[p].res.homework.id /\ hw.dueDate = ""

C16_Step ==
    \A p \in Procs :
        (Steps(p) /\ call[p].op = "add" /\ call[p].arg.dueDate \in Unparseable) =>
            \/ homework' = homework
            \/ \E hw \in homework' :
                  /\ hw \notin homework
                  /\ hw.dueDate = ""
                  /\ homework' = homework \cup {hw}

\* C16: an Add by a monitor, admin or owner whose target group exists and
\* whose dueDate text is not a date succeeds when no statement throws, and
\* creates exactly one homework row, with dueDate null.
C16_UnparseableDueDate == []C16_Result /\ [][C16_Step]_vars

C16_Witness ==
    \E p \in Procs :
        /\ Done(p, "add") /\ call[p].res.success
        /\ call[p].arg.dueDate \in Unparseable
        /\ call[p].res.homework.dueDate = ""

\* the call returned a failure result with one of the generic messages
GenericFailure(c) ==
    /\ c.res.kind \in {"error", "noDatabaseUrl"}
    /\ IF c.op = "verify" THEN ~c.res.isVerified /\ c.res.student = NoStudent
       ELSE ~c.res.success

\* a store statement of the call threw, or the call found no connection string
Failed(c) ==
    /\ c.op # "none"
    /\ \/ c.fault
       \/ ~databaseUrl /\ ~(c.op = "register" /\ c.res.kind = "notAuthorized")

\* the statement that threw is the handle update of verification
UpdateFailed(c) == c.op = "verify" /\ c.fault /\ c.loc # <<>>

\* C20 as stated: a call of any tool in which a store statement threw, or
\* which found no connection string, has returned a failure result with a
\* generic message.
C20_Original ==
    \A p \in Procs :
        Failed(call[p]) => call[p].pc = "done" /\ GenericFailure(call[p])

\* C20, amended: a call of any tool in which a store statement threw, or
\* which found no connection string, has returned (no exception leaves the
\* tool) a failure result with a generic message, except that a thrown handle
\* update of verification is swallowed and the verification still succeeds.
C20_StructuredFailure ==
    \A p \in Procs :
        Failed(call[p]) =>
            /\ call[p].pc = "done"
            /\ IF UpdateFailed(call[p])
               THEN call[p].res.isVerified /\ call[p].res.kind = "verified"
               ELSE GenericFailure(call[p])

\* the delete statement went through and closing the connection threw
C20_Witness ==
    \E p \in Procs :
        /\ Done(p, "delete") /\ call[p].fault /\ call[p].res = DelError
        /\ HomeworkWithId(homework, call[p].arg.homeworkId) = {}
        /\ nextHomeworkId > call[p].arg.homeworkId

\* step 2 of message p has started
Stage2Started(p) == run[p].attempts > 0

\* C17: for every message, step 2 starts only when step 1 has returned (no
\* tool call of the message is in flight any more), and what step 2 sends is
\* the text the agent produced for that message, to that message's chat.
C17_Sequential ==
    \A p \in Procs :
        Stage2Started(p) =>
            /\ call[p] = NoCall
            /\ run[p].out = [response |-> run[p].text,
                             chatId |-> run[p].input.chatId]
            /\ run[p].sends > 0 =>
                  run[p].payload = [chat_id |-> run[p].input.chatId,
                                    text |-> run[p].text]

\* a reply is sent to a group chat after the agent called tools, while the
\* other message's run is still in step 1
C17_Witness ==
    \E p, q \in Procs :
        /\ run[p].stage = "done" /\ run[p].sent
        /\ run[p].input.chatId # run[p].input.telegramUserId
        /\ run[p].steps > 0 /\ run[p].text = "reply"
        /\ run[q].stage = "step1" /\ run[q].input # run[p].input

\* the run of message p has ended
Ended(p) == run[p].stage \in {"done", "failed"}

\* the delivery attempt of p's run failed
DeliveryFailed(p) ==
    /\ run[p].attempts = 1
    /\ ~botToken \/ run[p].response \in {"notOk", "throws"}

\* C18: every workflow run makes exactly one delivery attempt, with at most
\* one send, and ends with no reply delivered only when that attempt failed.
C18_OneDeliveryAttempt ==
    \A p \in Procs :
        Ended(p) =>
            /\ run[p].attempts = 1
            /\ run[p].sends <= 1
            /\ ~run[p].sent => DeliveryFailed(p)

C19_Step ==
    \A p \in Procs :
        (run'[p] # run[p] /\ run[p].stage \in {"step2", "fetch"}) =>
            /\ students' = students
            /\ homework' = homework
            /\ run'[p].stage = "done" =>
                  (run'[p].sent <=> botToken /\ run'[p].response = "ok")

\* C19: step 2 returns sent = FALSE when the bot token is missing, the
\* transport answers not-OK or the transport throws, and no step of step 2
\* changes the students or homework table: what the tools wrote during step 1
\* stays.
C19_DeliveryFailureKeepsStore == [][C19_Step]_vars

\* the delivery failed after the message's tools wrote to both tables
C19_Witness ==
    \E p \in Procs :
        /\ run[p].stage = "done" /\ ~run[p].sent /\ run[p].response = "notOk"
        /\ run[p].steps >= 2
        /\ \E s \in students : s.telegramUserId = run[p].input.telegramUserId
        /\ \E hw \in homework : \E s \in students :
              s.id = hw.createdBy /\ s.telegramUserId = run[p].input.telegramUserId

C22_Rows ==
    \A s \in students :
        /\ s.studentId \in {ST001, ST002, ST003, ST004, ST005, ST006}
        /\ s.groupId = AUTHORIZED_STUDENTS[s.studentId].groupId
        /\ s.accessLevel = AUTHORIZED_STUDENTS[s.studentId].accessLevel

C22_Insert ==
    \A s \in students' \ students :
        (\A t \in students : t.id # s.id) =>
            /\ s.isActive
            /\ \E p \in Procs :
                  /\ At(p, "register", "reg_insert")
                  /\ s.studentId = RosterKey(call[p].arg.studentId)
                  /\ s.telegramUserId = call[p].arg.telegramUserId

\* C22: every student row has the groupId and accessLevel of the roster entry
\* of its studentId, in every reachable state; a row enters the table only by
\* the insert of a registration, with the normalized studentId of that call
\* and isActive = TRUE.
C22_RosterAuthoritative == []C22_Rows /\ [][C22_Insert]_vars

\* a row registered from a lower-case studentId with a handle, beside an
\* admin's row
C22_Witness ==
    /\ \E p \in Procs :
          /\ Done(p, "register") /\ call[p].res.kind = "registered"
          /\ call[p].arg.studentId = st001
          /\ call[p].arg.telegramUsername # ""
    /\ \E s \in students : s.accessLevel = "admin"

\* C23: of two Deletes of one homework id, at most one returns success.
C23_AtMostOneDeletes ==
    \A p, q \in Procs :
        (/\ p # q
         /\ Done(p, "delete") /\ Done(q, "delete")
         /\ call[p].arg.homeworkId = call[q].arg.homeworkId) =>
            ~(call[p].res.success /\ call[q].res.success)

C24_Step ==
    \A p \in Procs :
        LET a == call[p].arg IN
        /\ (/\ At(p, "verify", "ver_select") /\ Steps(p) /\ ~call'[p].fault
            /\ a.telegramUsername # ""
            /\ \E s \in CallerRows(a.telegramUserId) :
                  s.isActive /\ s.telegramUsername # a.telegramUsername)
           => call'[p].pc = "ver_update"
        /\ (At(p, "verify", "ver_update") /\ Steps(p)) =>
              /\ call'[p].pc = "done"
              /\ call'[p].res.isVerified
              /\ \E s \in CallerRows(a.telegramUserId) :
                    /\ call'[p].res.student.id = s.id
                    /\ call'[p].res.student.studentId = s.studentId
              /\ IF call'[p].fault THEN students' = students
                 ELSE \A s \in students' :
                         s.telegramUserId = a.telegramUserId =>
                             s.telegramUsername = a.telegramUsername

\* C24: a verification that finds an active row and is given a handle other
\* than the stored one updates the stored handle to the given one; when the
\* update throws, the table stays and the verification still returns
\* isVerified = TRUE with the student.
C24_HandleUpdate == [][C24_Step]_vars

\* the update threw and the verification succeeded
C24_Witness ==
    \E p \in Procs :
        /\ Done(p, "verify") /\ call[p].fault /\ call[p].res.isVerified
        /\ \E s \in CallerRows(call[p].arg.telegramUserId) :
              s.telegramUsername # call[p].arg.telegramUsername

\* row t is row s with at most another handle
SameButHandle(s, t) == t = [s EXCEPT !.telegramUsername = t.telegramUsername]

C25_Step ==
    \A p \in Procs :
        (Steps(p) /\ call'[p].op = "verify") =>
            LET a == call'[p].arg IN
            /\ homework' = homework
            /\ groups' = groups
            /\ \A s \in students :
                  \/ s \in students'
                  \/ /\ At(p, "verify", "ver_update")
                     /\ s.telegramUserId = a.telegramUserId
                     /\ a.telegramUsername # ""
                     /\ s.telegramUsername # a.telegramUsername
                     /\ call'[p].res.isVerified
                     /\ \E t \in students' : SameButHandle(s, t)
            /\ Cardinality(students') = Cardinality(students)
            /\ (call'[p].pc = "done" /\ ~call'[p].res.isVerified) =>
                  /\ students' = students
                  /\ call[p].pc \in {"idle", "ver_select"}

\* C25: a step of a verification changes at most the handle of the row of
\* the caller's identity, and only in the update of a call that returns
\* isVerified = TRUE and was given a handle other than the stored one; a
\* verification that fails has changed nothing; homework and groups are
\* never changed.
C25_VerificationFrame == [][C25_Step]_vars

\* the handle of the caller's row was updated, the other row kept its own
C25_Witness ==
    \E p \in Procs :
        /\ Done(p, "verify") /\ call[p].res.isVerified /\ ~call[p].fault
        /\ \E s, t \in students :
              /\ s.telegramUserId = call[p].arg.telegramUserId
              /\ s.telegramUsername = call[p].arg.telegramUsername
              /\ s.telegramUsername # ""
              /\ t # s /\ t.telegramUsername = ""

C26_Step ==
    \A s \in students :
        /\ \E t \in students' :
              t.telegramUserId = s.telegramUserId /\ t.studentId = s.studentId
        /\ \A t \in students' :
              /\ t.telegramUserId = s.telegramUserId => t.studentId = s.studentId
              /\ t.studentId = s.studentId => t.telegramUserId = s.telegramUserId

\* C26: a binding of an identity to a studentId, once in the table, is in
\* the table after every step of every tool, and neither the identity nor
\* the studentId is ever in a row with another partner.
C26_BindingPermanent == [][C26_Step]_vars

\* both identities are bound, a later registration was refused as bound and
\* a handle was updated
C26_Witness ==
    /\ Cardinality(students) = 2
    /\ \E s \in students : s.telegramUsername # ""
    /\ \E p \in Procs : Done(p, "register") /\ call[p].ghost.expect = "bound"

\* the tier a stored accessLevel stands for (null counts as student)
Tier(s) == IF s.accessLevel = "" THEN "student" ELSE s.accessLevel

C21_Step ==
    \A p \in Procs :
        (ReadsCaller(p) /\ Steps(p) /\ ~call'[p].fault) =>
            LET rows == CallerRows(CallerOf(p)) IN
            IF rows = {}
            THEN call'[p].pc = "done" /\ call'[p].res.kind = "notFound"
            ELSE \A s \in rows :
                /\ call[p].op \in {"add", "delete"} =>
                      (Denied(call'[p]) <=>
                          Tier(s) \notin {"monitor", "admin", "owner"})
                /\ call[p].op = "view" =>
                      /\ call'[p].res # <<>> => call'[p].res.kind = "noGroup"
                      /\ (call[p].arg.groupId \notin {0, s.groupId}) =>
                            ((/\ call'[p].pc = "view_homework"
                              /\ call'[p].loc.targetGroupId = call[p].arg.groupId)
                             <=> Tier(s) \in {"admin", "owner"})

\* C21: what Add, Delete and View allow is decided by the caller's row as it
\* is in the store when the call reads it, and by nothing else: Add and
\* Delete are denied exactly when the stored tier is not monitor, admin or
\* owner, View shows another group than the caller's exactly when the stored
\* tier is admin or owner, for every value of the other request fields and
\* also after the stored tier was changed between calls.
C21_FreshAccessLevel == [][C21_Step]_vars

\* the admin of the roster, set to student in the store since, is denied
C21_Witness ==
    \E p \in Procs :
        /\ Denied(call[p]) /\ call[p].op = "add"
        /\ \E s \in CallerRows(CallerOf(p)) :
              /\ s.studentId = ST004 /\ s.accessLevel = "student"
              /\ call[p].arg.groupId = s.groupId

\* the group View shows for caller row s and request a
ViewTarget(s, a) ==
    IF Tier(s) \in {"admin", "owner"} /\ a.groupId # 0 THEN a.groupId
    ELSE s.groupId

C27_Step ==
    \A p \in Procs :
        /\ (At(p, "view", "view_user") /\ Steps(p) /\ ~call'[p].fault) =>
              \A s \in CallerRows(call[p].arg.telegramUserId) :
                  IF ViewTarget(s, call[p].arg) = 0
                  THEN /\ call'[p].pc = "done"
                       /\ ~call'[p].res.success
                       /\ call'[p].res.homeworkList = <<>>
                  ELSE /\ call'[p].pc = "view_homework"
                       /\ call'[p].loc.targetGroupId = ViewTarget(s, call[p].arg)
        /\ (At(p, "view", "view_homework") /\ Steps(p) /\ ~call'[p].fault) =>
              /\ call'[p].pc = "done"
              /\ call'[p].res.success
              /\ \A i \in DOMAIN call'[p].res.homeworkList :
                    \E hw \in homework :
                        /\ hw.id = call'[p].res.homeworkList[i].id
                        /\ hw.groupId = call[p].loc.targetGroupId
              /\ \A hw \in homework :
                    hw.groupId = call[p].loc.targetGroupId =>
                        \/ Len(call'[p].res.homeworkList) = call[p].arg.limit
                        \/ \E i \in DOMAIN call'[p].res.homeworkList :
                              call'[p].res.homeworkList[i].id = hw.id

\* C27: the group whose homework View lists is the requested group when the
\* caller's stored tier is admin or owner and a groupId is given, else the
\* caller's own group; every row listed is a homework row of that group (and
\* all of them are listed, up to the limit); with no such group View fails
\* with an empty list.
C27_ViewGroup == [][C27_Step]_vars

\* an admin of another group is shown the requested group's homework
C27_Witness ==
    \E p \in Procs :
        /\ Done(p, "view") /\ call[p].res.success
        /\ Len(call[p].res.homeworkList) > 0
        /\ \E s \in CallerRows(call[p].arg.telegramUserId) :
              /\ Tier(s) \in {"admin", "owner"}
              /\ call[p].arg.groupId \notin {0, s.groupId}
        /\ \E hw \in homework : hw.groupId # call[p].arg.groupId

C28_Step ==
    \A p \in Procs :
        /\ (At(p, "add", "add_creator") /\ Steps(p) /\ ~call'[p].fault) =>
              /\ homework' = homework
              /\ \A s \in CallerRows(call[p].arg.createdByTelegramId) :
                    Tier(s) \in {"monitor", "admin", "owner"} =>
                        IF AddTarget(p, s) = 0
                        THEN /\ call'[p].pc = "done"
                             /\ ~call'[p].res.success
                             /\ call'[p].res.kind = "noGroup"
                        ELSE /\ call'[p].pc = "add_group"
                             /\ call'[p].loc.creatorData.id = s.id
                             /\ call'[p].loc.targetGroupId = AddTarget(p, s)
        /\ (At(p, "add", "add_group") /\ Steps(p) /\ ~call'[p].fault) =>
              /\ homework' = homework
              /\ IF \E g \in groups : g.id = call[p].loc.targetGroupId
                 THEN /\ call'[p].pc = "add_insert"
                      /\ call'[p].loc.creatorData = call[p].loc.creatorData
                      /\ call'[p].loc.targetGroupId = call[p].loc.targetGroupId
                 ELSE /\ call'[p].pc = "done"
                      /\ ~call'[p].res.success
                      /\ call'[p].res.kind = "groupNotFound"
        /\ homework' # homework /\ Cardinality(homework') > Cardinality(homework) =>
              \E q \in Procs : \E hw \in homework' :
                  /\ At(q, "add", "add_insert")
                  /\ homework' = homework \cup {hw}
                  /\ hw \notin homework
                  /\ hw.createdBy = call[q].loc.creatorData.id
                  /\ hw.groupId = call[q].loc.targetGroupId
                  /\ \E g \in groups : g.id = hw.groupId

\* C28: a homework row is created only by the insert of an Add, with
\* createdBy the id of the caller's row, read with tier monitor, admin or
\* owner, and groupId the supplied groupId, else the caller's group, a group
\* found in the groups table; with no group supplied and none of the
\* caller's, or a target group that is not in the table, Add fails and
\* creates nothing.
C28_AddRow == [][C28_Step]_vars

\* an Add without a group by a caller who has none fails, after an earlier
\* Add created a row
C28_Witness ==
    \E p \in Procs :
        /\ Done(p, "add") /\ call[p].res.kind = "noGroup"
        /\ call[p].arg.groupId = 0
        /\ homework # {}

====
